---- MODULE Spec2Model ----
(***************************************************************************)
(* Model of lockbox's Rust bridge (src/rust/src/lib.rs): the ten exported  *)
(* age_* entry points, the two helpers decrypt_content and                 *)
(* parse_identities_from_key_file, and the parts of the age and base64     *)
(* crates those call.                                                      *)
(*                                                                         *)
(* Byte buffers and strings are sequences of byte values 0..255 (a Rust    *)
(* &str / String is such a sequence that is valid UTF-8).  The literals    *)
(* the code tests for are kept byte for byte.  The age container is kept   *)
(* at byte level with a scaled-down layout: a version line, one four-byte  *)
(* stanza per recipient, a two-byte MAC line and the payload as STREAM     *)
(* chunks of ChunkSize bytes each followed by a one-byte tag.              *)
(***************************************************************************)
EXTENDS Integers, Sequences, FiniteSets, TLC

(***************************************************************************)
(* Bounds of the model.                                                    *)
(***************************************************************************)
\* x25519 key pairs that exist in the model
NumKeys == 3
\* longest recipient list a caller passes
MaxRecips == 2
\* longest plaintext a caller passes
MaxPlainLen == 3
\* age's STREAM chunk size (65536 in the crate), scaled down
ChunkSize == 2
\* most lines of a key file
MaxLines == 2

(***************************************************************************)
(* Literals.                                                               *)
(***************************************************************************)
\* "-----BEGIN AGE ENCRYPTED FILE-----"
ArmorHeader ==
  <<45, 45, 45, 45, 45, 66, 69, 71, 73, 78, 32, 65, 71, 69, 32, 69, 78, 67,
    82, 89, 80, 84, 69, 68, 32, 70, 73, 76, 69, 45, 45, 45, 45, 45>>

\* "-----END AGE ENCRYPTED FILE-----"
ArmorFooter ==
  <<45, 45, 45, 45, 45, 69, 78, 68, 32, 65, 71, 69, 32, 69, 78, 67, 82, 89,
    80, 84, 69, 68, 32, 70, 73, 76, 69, 45, 45, 45, 45, 45>>

\* "AGE-SECRET-KEY-"
SecretKeyPrefix ==
  <<65, 71, 69, 45, 83, 69, 67, 82, 69, 84, 45, 75, 69, 89, 45>>

\* "age-encryption.org/v1\n", the first line of a binary container
VersionLine ==
  <<97, 103, 101, 45, 101, 110, 99, 114, 121, 112, 116, 105, 111, 110, 46,
    111, 114, 103, 47, 118, 49, 10>>

\* "age1", the human-readable part of a recipient string
RecipientHrp == <<97, 103, 101, 49>>

LF == 10
CR == 13

(***************************************************************************)
(* Results.  Every entry point returns Result<T>; the code builds every    *)
(* error as Error::Other(message), so an error is its message (without the *)
(* detail after the colon) and, for "Invalid recipient", the string named. *)
(***************************************************************************)
Ok(v) == [ok |-> TRUE, val |-> v, err |-> "", arg |-> <<>>]

Err(m) == [ok |-> FALSE, val |-> <<>>, err |-> m, arg |-> <<>>]

ErrNaming(m, s) == [ok |-> FALSE, val |-> <<>>, err |-> m, arg |-> s]

(***************************************************************************)
(* Slices.                                                                 *)
(***************************************************************************)
\* <[u8]>::starts_with / str::starts_with
StartsWith(buf, lit) ==
  /\ Len(buf) >= Len(lit)
  /\ \A i \in 1..Len(lit) : buf[i] = lit[i]

Drop(s, n) == SubSeq(s, n + 1, Len(s))

Take(s, n) == SubSeq(s, 1, n)

RECURSIVE SumSeq(_)
SumSeq(s) == IF s = <<>> THEN 0 ELSE s[1] + SumSeq(Tail(s))

RECURSIVE Flatten(_)
Flatten(ss) == IF ss = <<>> THEN <<>> ELSE ss[1] \o Flatten(Tail(ss))

\* all sequences over S of length at most n
SeqsUpTo(S, n) == UNION {[1..k -> S] : k \in 0..n}

(***************************************************************************)
(* String::from_utf8: the byte sequence must be well-formed UTF-8.         *)
(***************************************************************************)
IsCont(b) == b >= 128 /\ b <= 191

\* the length of the character a byte starts, 0 for a byte that starts none
CharLen(c) ==
  IF c < 128 THEN 1
  ELSE IF c >= 194 /\ c <= 223 THEN 2
  ELSE IF c >= 224 /\ c <= 239 THEN 3
  ELSE IF c >= 240 /\ c <= 244 THEN 4
  ELSE 0

\* every byte starts a complete character or continues the character started
\* at most three bytes before it
ValidUtf8(b) ==
  \A i \in 1..Len(b) :
    IF IsCont(b[i])
    THEN \E l \in 1..3 :
           /\ i - l >= 1
           /\ CharLen(b[i - l]) > l
           /\ \A j \in (i - l + 1)..(i - 1) : IsCont(b[j])
    ELSE /\ CharLen(b[i]) >= 1
         /\ i + CharLen(b[i]) - 1 <= Len(b)
         /\ \A j \in (i + 1)..(i + CharLen(b[i]) - 1) : IsCont(b[j])
         /\ (b[i] = 224 => b[i + 1] >= 160)
         /\ (b[i] = 237 => b[i + 1] <= 159)
         /\ (b[i] = 240 => b[i + 1] >= 144)
         /\ (b[i] = 244 => b[i + 1] <= 143)

StringFromUtf8(bytes, m) == IF ValidUtf8(bytes) THEN Ok(bytes) ELSE Err(m)

(***************************************************************************)
(* base64::engine::general_purpose::STANDARD.                              *)
(***************************************************************************)
PAD == 61

B64Char(v) ==
  IF v < 26 THEN 65 + v
  ELSE IF v < 52 THEN 97 + (v - 26)
  ELSE IF v < 62 THEN 48 + (v - 52)
  ELSE IF v = 62 THEN 43
  ELSE 47

\* the 6-bit value of an alphabet character, -1 for any other byte
B64Val(c) ==
  IF c >= 65 /\ c <= 90 THEN c - 65
  ELSE IF c >= 97 /\ c <= 122 THEN c - 97 + 26
  ELSE IF c >= 48 /\ c <= 57 THEN c - 48 + 52
  ELSE IF c = 43 THEN 62
  ELSE IF c = 47 THEN 63
  ELSE -1

\* the byte at position i, 0 past the end
ByteAt(b, i) == IF i <= Len(b) THEN b[i] ELSE 0

Base64Encode(b) ==
  LET n == Len(b)
      groups == (n + 2) \div 3
      ch(i) ==
        LET g == (i - 1) \div 4
            k == (i - 1) % 4
            b1 == ByteAt(b, 3 * g + 1)
            b2 == ByteAt(b, 3 * g + 2)
            b3 == ByteAt(b, 3 * g + 3)
        IN  IF k = 0 THEN B64Char(b1 \div 4)
            ELSE IF k = 1 THEN B64Char((b1 % 4) * 16 + b2 \div 16)
            ELSE IF k = 2
              THEN IF 3 * g + 2 > n THEN PAD
                   ELSE B64Char((b2 % 16) * 4 + b3 \div 64)
            ELSE IF 3 * g + 3 > n THEN PAD ELSE B64Char(b3 % 64)
  IN  [i \in 1..(4 * groups) |-> ch(i)]

\* decode with canonical padding required, as the STANDARD engine does
Base64Decode(s) ==
  LET n == Len(s)
      pads == IF n >= 2 /\ s[n] = PAD /\ s[n - 1] = PAD THEN 2
              ELSE IF n >= 1 /\ s[n] = PAD THEN 1
              ELSE 0
      body == n - pads
      v(i) == IF i <= body THEN B64Val(s[i]) ELSE 0
      outLen == (n \div 4) * 3 - pads
      byte(j) ==
        LET g == (j - 1) \div 3
            k == (j - 1) % 3
            v1 == v(4 * g + 1)
            v2 == v(4 * g + 2)
            v3 == v(4 * g + 3)
            v4 == v(4 * g + 4)
        IN  IF k = 0 THEN v1 * 4 + v2 \div 16
            ELSE IF k = 1 THEN (v2 % 16) * 16 + v3 \div 4
            ELSE (v3 % 4) * 64 + v4
      trailingBitsZero ==
        IF pads = 2 THEN v(body) % 16 = 0
        ELSE IF pads = 1 THEN v(body) % 4 = 0
        ELSE TRUE
      wellFormed ==
        /\ n % 4 = 0
        /\ \A i \in 1..body : B64Val(s[i]) >= 0
        /\ trailingBitsZero
  IN  IF wellFormed THEN [ok |-> TRUE, val |-> [j \in 1..outLen |-> byte(j)]]
      ELSE [ok |-> FALSE, val |-> <<>>]

(***************************************************************************)
(* Lines of a text.                                                        *)
(***************************************************************************)
HasLF(s) == \E i \in 1..Len(s) : s[i] = LF

FirstLF(s) == CHOOSE i \in 1..Len(s) : s[i] = LF /\ \A j \in 1..(i - 1) : s[j] # LF

\* the segments between line feeds, empty segments included
RECURSIVE SplitLF(_)
SplitLF(s) ==
  IF ~HasLF(s) THEN <<s>>
  ELSE <<Take(s, FirstLF(s) - 1)>> \o SplitLF(Drop(s, FirstLF(s)))

StripCR(l) == IF Len(l) > 0 /\ l[Len(l)] = CR THEN Take(l, Len(l) - 1) ELSE l

\* str::lines: split at "\n", no empty last line after a final "\n", one
\* trailing "\r" removed from each line
StrLines(s) ==
  LET segs == SplitLF(s)
      kept == IF segs[Len(segs)] = <<>> THEN Take(segs, Len(segs) - 1) ELSE segs
  IN  [i \in 1..Len(kept) |-> StripCR(kept[i])]

\* the lines joined, each followed by a line feed
RECURSIVE JoinLines(_)
JoinLines(ls) == IF ls = <<>> THEN <<>> ELSE ls[1] \o <<LF>> \o JoinLines(Tail(ls))

(***************************************************************************)
(* age::armor.  ArmoredWriter buffers the bytes written to it and emits    *)
(* base64 lines of ArmorColumns columns; the last buffered bytes and the   *)
(* end marker are emitted by ArmoredWriter::finish only.                   *)
(***************************************************************************)
\* ARMORED_COLUMNS_PER_LINE
ArmorColumns == 64

\* BASE64_CHUNK_SIZE_BYTES: the writer encodes its buffer when it is full
\* and more bytes arrive
ArmorChunkBytes == 6144

\* a base64 text cut into lines of ArmorColumns columns
RECURSIVE ArmorLines(_)
ArmorLines(b64) ==
  IF Len(b64) = 0 THEN <<>>
  ELSE IF Len(b64) <= ArmorColumns THEN <<b64>>
  ELSE <<Take(b64, ArmorColumns)>> \o ArmorLines(Drop(b64, ArmorColumns))

\* ArmoredWriter::wrap_output(.., AsciiArmor), the writes, then finish()
ArmoredWriterFinished(bin) ==
  ArmorHeader \o <<LF>> \o JoinLines(ArmorLines(Base64Encode(bin)))
    \o ArmorFooter \o <<LF>>

\* the bytes of bin the writer has encoded once bin is written to it: whole
\* buffers only, and a buffer is encoded only when further bytes arrive
ArmorFlushedLen(bin) ==
  IF Len(bin) = 0 THEN 0
  ELSE ((Len(bin) - 1) \div ArmorChunkBytes) * ArmorChunkBytes

\* ArmoredWriter::wrap_output(.., AsciiArmor), the writes, then flush() with
\* no finish(): what has reached the underlying writer
ArmoredWriterUnfinished(bin) ==
  LET lines == ArmorLines(Base64Encode(Take(bin, ArmorFlushedLen(bin))))
      body == JoinLines(lines)
  IN  ArmorHeader \o <<LF>>
        \o (IF body = <<>> THEN <<>> ELSE Take(body, Len(body) - 1))

\* ArmoredReader over an armored text: the binary bytes, or a failure when
\* the envelope is malformed (no line end after the begin marker, a body
\* line that is not full before the last one, an empty or over-long line, no
\* end marker, bytes after it other than one line end, invalid base64)
Dearmor(text) ==
  LET rest == Drop(text, Len(ArmorHeader))
      segs == SplitLF(rest)
      isEnd(i) == StripCR(segs[i]) = ArmorFooter
      hasEnd == \E i \in 2..Len(segs) : isEnd(i)
      endAt == CHOOSE i \in 2..Len(segs) : isEnd(i) /\ \A j \in 2..(i - 1) : ~isEnd(j)
      body == [i \in 1..(endAt - 2) |-> StripCR(segs[i + 1])]
      shapeOk ==
        /\ StripCR(segs[1]) = <<>>
        /\ Len(body) >= 1
        /\ \A i \in 1..Len(body) :
             /\ Len(body[i]) >= 1
             /\ Len(body[i]) <= ArmorColumns
             /\ (i < Len(body) => Len(body[i]) = ArmorColumns)
        /\ \A i \in (endAt + 1)..Len(segs) : segs[i] = <<>>
        /\ Len(segs) <= endAt + 1
  IN  IF hasEnd /\ shapeOk THEN Base64Decode(Flatten(body))
      ELSE [ok |-> FALSE, val |-> <<>>]

\* ArmoredReader::new(input) read to the end: it detects the begin marker
\* itself and passes any other input through unchanged
ArmoredReaderRead(input) ==
  IF StartsWith(input, ArmorHeader) THEN Dearmor(input)
  ELSE [ok |-> TRUE, val |-> input]

(***************************************************************************)
(* age keys.  A recipient string is "age1" and the encoded public key, an  *)
(* identity line is "AGE-SECRET-KEY-1" and the encoded secret key; the     *)
(* encodings are scaled down to one character of data.                     *)
(***************************************************************************)
Keys == 1..NumKeys

\* the secret and public keys an encoding can hold
KeyRange == 1..26

\* x25519::Identity::to_public
ToPublic(k) == 27 - k

\* <x25519::Recipient as Display>::to_string
RecipientToString(pk) == RecipientHrp \o <<96 + pk>>

\* <x25519::Identity>::to_string
IdentityToString(k) == SecretKeyPrefix \o <<49, 64 + k>>

\* str::parse::<x25519::Recipient>
ParseRecipient(s) ==
  IF Len(s) = Len(RecipientHrp) + 1
     /\ StartsWith(s, RecipientHrp)
     /\ (s[Len(s)] - 96) \in KeyRange
  THEN [ok |-> TRUE, val |-> s[Len(s)] - 96]
  ELSE [ok |-> FALSE, val |-> 0]

\* x25519::Identity::from_str
IdentityFromStr(s) ==
  IF Len(s) = Len(SecretKeyPrefix) + 2
     /\ StartsWith(s, SecretKeyPrefix \o <<49>>)
     /\ (s[Len(s)] - 64) \in KeyRange
  THEN [ok |-> TRUE, val |-> s[Len(s)] - 64]
  ELSE [ok |-> FALSE, val |-> 0]

X25519Identity(k) == [kind |-> "x25519", key |-> k, pass |-> <<>>]

\* scrypt::Identity::new(SecretString::from(passphrase))
ScryptIdentity(p) == [kind |-> "scrypt", key |-> 0, pass |-> p]

(***************************************************************************)
(* age::Encryptor.  The file key is wrapped once per recipient, in input   *)
(* order; the header ends with a MAC under the file key; the payload is    *)
(* the plaintext in STREAM chunks, each with its own tag, the last chunk   *)
(* marked as last.  Sealing is modelled by arithmetic on byte values: a    *)
(* stanza opens only with the matching key, a tag matches only the chunk   *)
(* it was made for.                                                        *)
(***************************************************************************)
\* the file keys the random generator draws from
FileKeys == {1, 2}

StanzaMark == 62

MacMark == 45

X25519Tag == 88

ScryptTag == 115

StanzaLen == 4

\* the scrypt key derivation of a passphrase
Kdf(pass) == (SumSeq(pass) * 3 + Len(pass) + 1) % 256

\* x25519::Recipient::wrap_file_key
WrapX25519(fk, pk) == <<StanzaMark, X25519Tag, pk, (fk + pk) % 256>>

\* scrypt::Recipient::wrap_file_key
WrapScrypt(fk, pass) == <<StanzaMark, ScryptTag, Kdf(pass), (fk + Kdf(pass)) % 256>>

HeaderMac(fk, stanzaBytes) == (fk * 31 + SumSeq(stanzaBytes)) % 256

Header(fk, stanzas) ==
  VersionLine \o Flatten(stanzas) \o <<MacMark, HeaderMac(fk, Flatten(stanzas))>>

ChunkTag(fk, data, idx, last) ==
  (fk * 17 + idx * 5 + (IF last THEN 3 ELSE 0) + SumSeq(data)) % 256

SealChunk(fk, data, idx, last) ==
  [i \in 1..Len(data) |-> (data[i] + fk) % 256] \o <<ChunkTag(fk, data, idx, last)>>

\* StreamWriter: write_all(plain) then finish()
RECURSIVE StreamEncrypt(_, _, _)
StreamEncrypt(fk, plain, idx) ==
  IF Len(plain) <= ChunkSize THEN SealChunk(fk, plain, idx, TRUE)
  ELSE SealChunk(fk, Take(plain, ChunkSize), idx, FALSE)
         \o StreamEncrypt(fk, Drop(plain, ChunkSize), idx + 1)

\* Encryptor::with_recipients(pks), wrap_output, write_all(plain), finish:
\* the binary container
EncryptToRecipients(fk, pks, plain) ==
  Header(fk, [i \in 1..Len(pks) |-> WrapX25519(fk, pks[i])])
    \o StreamEncrypt(fk, plain, 0)

\* Encryptor::with_user_passphrase(pass), wrap_output, write_all, finish
EncryptToPassphrase(fk, pass, plain) ==
  Header(fk, <<WrapScrypt(fk, pass)>>) \o StreamEncrypt(fk, plain, 0)

(***************************************************************************)
(* age::Decryptor.                                                         *)
(***************************************************************************)
RECURSIVE ParseStanzas(_)
ParseStanzas(bytes) ==
  IF Len(bytes) >= StanzaLen /\ bytes[1] = StanzaMark
  THEN LET more == ParseStanzas(Drop(bytes, StanzaLen))
       IN  [stanzas |-> <<Take(bytes, StanzaLen)>> \o more.stanzas, rest |-> more.rest]
  ELSE [stanzas |-> <<>>, rest |-> bytes]

\* Decryptor::new(input): reads the header; the payload is read later
DecryptorNew(bytes) ==
  LET parsed == ParseStanzas(Drop(bytes, Len(VersionLine)))
      rest == parsed.rest
  IN  IF /\ StartsWith(bytes, VersionLine)
         /\ Len(parsed.stanzas) >= 1
         /\ Len(rest) >= 2
         /\ rest[1] = MacMark
      THEN [ok |-> TRUE, stanzas |-> parsed.stanzas, mac |-> rest[2],
            payload |-> Drop(rest, 2)]
      ELSE [ok |-> FALSE, stanzas |-> <<>>, mac |-> 0, payload |-> <<>>]

NoneFk == [some |-> FALSE, ok |-> FALSE, fk |-> 0]

\* Identity::unwrap_stanza: None for a stanza of another type or (x25519)
\* sealed to another key, the file key when it opens, and for scrypt an
\* error when the passphrase is wrong
UnwrapStanza(id, st) ==
  IF id.kind = "x25519"
  THEN IF st[2] = X25519Tag /\ st[3] = ToPublic(id.key)
       THEN [some |-> TRUE, ok |-> TRUE, fk |-> (st[4] - st[3]) % 256]
       ELSE NoneFk
  ELSE IF st[2] # ScryptTag THEN NoneFk
       ELSE IF st[3] = Kdf(id.pass)
       THEN [some |-> TRUE, ok |-> TRUE, fk |-> (st[4] - st[3]) % 256]
       ELSE [some |-> TRUE, ok |-> FALSE, fk |-> 0]

\* Identity::unwrap_stanzas: the first stanza the identity has an answer for
RECURSIVE UnwrapStanzas(_, _)
UnwrapStanzas(id, stanzas) ==
  IF stanzas = <<>> THEN NoneFk
  ELSE LET r == UnwrapStanza(id, stanzas[1])
       IN  IF r.some THEN r ELSE UnwrapStanzas(id, Tail(stanzas))

\* identities.find_map(|key| key.unwrap_stanzas(stanzas))
RECURSIVE FindFileKey(_, _)
FindFileKey(identities, stanzas) ==
  IF identities = <<>> THEN NoneFk
  ELSE LET r == UnwrapStanzas(identities[1], stanzas)
       IN  IF r.some THEN r ELSE FindFileKey(Tail(identities), stanzas)

\* Decryptor::decrypt(identities): the file key of the payload, or a
\* DecryptError (no matching keys, decryption failed, invalid MAC)
DecryptorDecrypt(dec, identities) ==
  LET r == FindFileKey(identities, dec.stanzas)
  IN  IF r.some /\ r.ok /\ HeaderMac(r.fk, Flatten(dec.stanzas)) = dec.mac
      THEN [ok |-> TRUE, fk |-> r.fk]
      ELSE [ok |-> FALSE, fk |-> 0]

\* one chunk opened: its plaintext when the tag matches
OpenChunk(fk, chunk, idx, last) ==
  LET data == [i \in 1..(Len(chunk) - 1) |-> (chunk[i] - fk) % 256]
  IN  [ok |-> chunk[Len(chunk)] = ChunkTag(fk, data, idx, last), data |-> data]

\* StreamReader read chunk by chunk: the plaintext of the chunks before the
\* first one that fails, and whether the stream ended with a verified last
\* chunk
RECURSIVE StreamDecrypt(_, _, _)
StreamDecrypt(fk, payload, idx) ==
  IF Len(payload) = 0 THEN [ok |-> FALSE, data |-> <<>>]
  ELSE IF Len(payload) > ChunkSize + 1
  THEN LET c == OpenChunk(fk, Take(payload, ChunkSize + 1), idx, FALSE)
           more == StreamDecrypt(fk, Drop(payload, ChunkSize + 1), idx + 1)
       IN  IF c.ok THEN [ok |-> more.ok, data |-> c.data \o more.data]
           ELSE [ok |-> FALSE, data |-> <<>>]
  ELSE LET c == OpenChunk(fk, payload, idx, TRUE)
       IN  IF c.ok THEN [ok |-> TRUE, data |-> c.data]
           ELSE [ok |-> FALSE, data |-> <<>>]

(***************************************************************************)
(* The file system: each path holds a file (its bytes) or nothing.         *)
(* Nothing can be created under NoDirPath, whose directory does not exist. *)
(***************************************************************************)
KeyPath == "key"

InPath == "in"

OutPath == "out"

NoDirPath == "nodir/f"

Paths == {KeyPath, InPath, OutPath, NoDirPath}

NoFile == [exists |-> FALSE, data |-> <<>>]

File(bytes) == [exists |-> TRUE, data |-> bytes]

\* std::fs::read
FsRead(files, path, m) ==
  IF files[path].exists THEN Ok(files[path].data) ELSE Err(m)

\* std::fs::read_to_string
FsReadToString(files, path, m) ==
  IF files[path].exists /\ ValidUtf8(files[path].data)
  THEN Ok(files[path].data)
  ELSE Err(m)

\* std::fs::File::create succeeds
CanCreate(path) == path # NoDirPath

(***************************************************************************)
(* decrypt_content (lib.rs 11-43).                                         *)
(***************************************************************************)
\* the test made after leading spaces are skipped
IsArmoredInputTrimmed(file_content) ==
  \E n \in 0..Len(file_content) :
    /\ \A i \in 1..n : file_content[i] = 32
    /\ StartsWith(Drop(file_content, n), ArmorHeader)

\* line 19: the test that selects the armored branch
IsArmoredInput(file_content) == StartsWith(file_content, ArmorHeader)

\* lines 19-36, the reader handed to Decryptor::new: ArmoredReader over the
\* buffer in the armored branch, the buffer itself in the binary branch
ContainerInput(file_content) ==
  IF IsArmoredInput(file_content) THEN ArmoredReaderRead(file_content)
  ELSE [ok |-> TRUE, val |-> file_content]

\* a read that keeps what was read before the error
ReadDecryptedPartial(rd) == Ok(rd.data)

\* lines 38-42: read_to_end into a fresh Vec; an error drops the Vec
ReadDecrypted(rd) ==
  IF rd.ok THEN Ok(rd.data) ELSE Err("Failed to read decrypted content")

\* every failure reported as the failure of Decryptor::new
decrypt_content_one_message(file_content, identities) ==
  LET input == ContainerInput(file_content)
      dec == DecryptorNew(input.val)
      key == DecryptorDecrypt(dec, identities)
      rd == StreamDecrypt(key.fk, dec.payload, 0)
  IN  IF ~input.ok \/ ~dec.ok \/ ~key.ok \/ ~rd.ok THEN Err("Failed to create decryptor")
      ELSE Ok(rd.data)

decrypt_content(file_content, identities) ==
  LET input == ContainerInput(file_content)
      dec == DecryptorNew(input.val)
      key == DecryptorDecrypt(dec, identities)
  IN  IF ~input.ok \/ ~dec.ok THEN Err("Failed to create decryptor")
      ELSE IF ~key.ok THEN Err("Failed to decrypt")
      ELSE ReadDecrypted(StreamDecrypt(key.fk, dec.payload, 0))

(***************************************************************************)
(* parse_identities_from_key_file (lib.rs 50-67).                          *)
(***************************************************************************)
\* line 54
IsSignificant(line) == StartsWith(line, SecretKeyPrefix)

\* lines 53-60: the loop over the lines; the first significant line that
\* does not parse ends it with an error
RECURSIVE IdentityLoop(_)
IdentityLoop(lines) ==
  IF lines = <<>> THEN Ok(<<>>)
  ELSE IF IsSignificant(lines[1])
  THEN LET id == IdentityFromStr(lines[1])
           more == IdentityLoop(Tail(lines))
       IN  IF ~id.ok THEN Err("Failed to parse identity")
           ELSE IF ~more.ok THEN more
           ELSE Ok(<<X25519Identity(id.val)>> \o more.val)
  ELSE IdentityLoop(Tail(lines))

\* a significant line that does not parse skipped like a comment
parse_identities_skipping(key_content) ==
  LET lines == StrLines(key_content)
      Parses(line) == IsSignificant(line) /\ IdentityFromStr(line).ok
      kept == SelectSeq(lines, Parses)
  IN  IF kept = <<>> THEN Err("No valid age identities found")
      ELSE Ok([i \in 1..Len(kept) |-> X25519Identity(IdentityFromStr(kept[i]).val)])

parse_identities_from_key_file(key_content) ==
  LET r == IdentityLoop(StrLines(key_content))
  IN  IF ~r.ok THEN r
      ELSE IF r.val = <<>> THEN Err("No valid age identities found")
      ELSE r

(***************************************************************************)
(* File decryption (lib.rs 76-114).                                        *)
(***************************************************************************)
age_decrypt_with_passphrase(files, encrypted_file_path, passphrase) ==
  LET file_content == FsRead(files, encrypted_file_path, "Failed to read encrypted file")
  IN  IF ~file_content.ok THEN file_content
      ELSE decrypt_content(file_content.val, <<ScryptIdentity(passphrase)>>)

age_decrypt_with_key(files, encrypted_file_path, private_key_path) ==
  LET file_content == FsRead(files, encrypted_file_path, "Failed to read encrypted file")
      key_content == FsReadToString(files, private_key_path, "Failed to read private key file")
      identities == parse_identities_from_key_file(key_content.val)
  IN  IF ~file_content.ok THEN file_content
      ELSE IF ~key_content.ok THEN key_content
      ELSE IF ~identities.ok THEN identities
      ELSE decrypt_content(file_content.val, identities.val)

(***************************************************************************)
(* Key generation and public key extraction (lib.rs 123-176).              *)
(***************************************************************************)
\* "# created: "
CreatedComment == <<35, 32, 99, 114, 101, 97, 116, 101, 100, 58, 32>>

\* "# public key: "
PublicKeyComment == <<35, 32, 112, 117, 98, 108, 105, 99, 32, 107, 101, 121, 58, 32>>

\* line 133: the text of a generated key file
KeyFileText(k, now) ==
  CreatedComment \o now \o <<LF>>
    \o PublicKeyComment \o RecipientToString(ToPublic(k)) \o <<LF>>
    \o IdentityToString(k) \o <<LF>>

\* the result and the file system after the call; k is the generated
\* identity and now the formatted time
age_generate_key(files, key_file_path, k, now) ==
  IF ~CanCreate(key_file_path)
  THEN [res |-> Err("Failed to create key file"), files |-> files]
  ELSE [res |-> Ok(RecipientToString(ToPublic(k))),
        files |-> [files EXCEPT ![key_file_path] = File(KeyFileText(k, now))]]

\* lines 166-175: the first significant line gives the answer
RECURSIVE FirstPublicKey(_)
FirstPublicKey(lines) ==
  IF lines = <<>> THEN Err("No valid age identities found")
  ELSE IF IsSignificant(lines[1])
  THEN LET id == IdentityFromStr(lines[1])
       IN  IF ~id.ok THEN Err("Failed to parse identity")
           ELSE Ok(RecipientToString(ToPublic(id.val)))
  ELSE FirstPublicKey(Tail(lines))

\* the first identity line taken without the validation of line 163
age_extract_unvalidated(files, key_file_path) ==
  LET key_content == FsReadToString(files, key_file_path, "Failed to read key file")
  IN  IF ~key_content.ok THEN key_content
      ELSE FirstPublicKey(StrLines(key_content.val))

age_extract_public_key(files, key_file_path) ==
  LET key_content == FsReadToString(files, key_file_path, "Failed to read key file")
      identities == parse_identities_from_key_file(key_content.val)
  IN  IF ~key_content.ok THEN key_content
      ELSE IF ~identities.ok THEN identities
      ELSE FirstPublicKey(StrLines(key_content.val))

(***************************************************************************)
(* Encryption (lib.rs 185-379).  fk is the file key the encryptor draws.   *)
(***************************************************************************)
\* lines 190-195 and 290-295: parse every string in input order; the first
\* one that does not parse ends the call with an error naming it
RECURSIVE ParseRecipientList(_)
ParseRecipientList(recipients) ==
  IF recipients = <<>> THEN Ok(<<>>)
  ELSE LET r == ParseRecipient(recipients[1])
           more == ParseRecipientList(Tail(recipients))
       IN  IF ~r.ok THEN ErrNaming("Invalid recipient", recipients[1])
           ELSE IF ~more.ok THEN more
           ELSE Ok(<<r.val>> \o more.val)

\* the strings that parse kept, the others dropped
ParsedRecipientsLenient(recipients) ==
  LET Parses(r) == ParseRecipient(r).ok
      kept == SelectSeq(recipients, Parses)
  IN  IF kept = <<>> THEN Err("At least one recipient is required")
      ELSE Ok([i \in 1..Len(kept) |-> ParseRecipient(kept[i]).val])

\* lines 189-199 and 289-299: the parsed recipients, which must not be empty
ParsedRecipients(recipients) ==
  LET parsed == ParseRecipientList(recipients)
  IN  IF ~parsed.ok THEN parsed
      ELSE IF parsed.val = <<>> THEN Err("At least one recipient is required")
      ELSE parsed

\* lines 214-233: what reaches the output file; the armored writer is
\* flushed but never finished
FileOutput(container, armor) ==
  IF armor THEN ArmoredWriterUnfinished(container) ELSE container

\* the output file created before the recipients are parsed and the input
\* file is read
age_encrypt_key_create_first(files, input_file_path, output_file_path, recipients, armor, fk) ==
  LET created == [files EXCEPT ![output_file_path] = File(<<>>)]
      parsed_recipients == ParsedRecipients(recipients)
      input_data == FsRead(created, input_file_path, "Failed to read input file")
      container == EncryptToRecipients(fk, parsed_recipients.val, input_data.val)
  IN  IF ~CanCreate(output_file_path)
        THEN [res |-> Err("Failed to create output file"), files |-> files]
      ELSE IF ~parsed_recipients.ok THEN [res |-> parsed_recipients, files |-> created]
      ELSE IF ~input_data.ok THEN [res |-> input_data, files |-> created]
      ELSE [res |-> Ok(<<>>),
            files |-> [files EXCEPT ![output_file_path] =
                         File(FileOutput(container, armor))]]

age_encrypt_key(files, input_file_path, output_file_path, recipients, armor, fk) ==
  LET parsed_recipients == ParsedRecipients(recipients)
      input_data == FsRead(files, input_file_path, "Failed to read input file")
      container == EncryptToRecipients(fk, parsed_recipients.val, input_data.val)
  IN  IF ~parsed_recipients.ok THEN [res |-> parsed_recipients, files |-> files]
      ELSE IF ~input_data.ok THEN [res |-> input_data, files |-> files]
      ELSE IF ~CanCreate(output_file_path)
        THEN [res |-> Err("Failed to create output file"), files |-> files]
      ELSE [res |-> Ok(<<>>),
            files |-> [files EXCEPT ![output_file_path] =
                         File(FileOutput(container, armor))]]

age_encrypt_passphrase(files, input_file_path, output_file_path, passphrase, fk) ==
  LET input_data == FsRead(files, input_file_path, "Failed to read input file")
      container == EncryptToPassphrase(fk, passphrase, input_data.val)
  IN  IF ~input_data.ok THEN [res |-> input_data, files |-> files]
      ELSE IF ~CanCreate(output_file_path)
        THEN [res |-> Err("Failed to create output file"), files |-> files]
      ELSE [res |-> Ok(<<>>),
            files |-> [files EXCEPT ![output_file_path] = File(container)]]

\* the armored writer flushed, not finished, as lines 214-233 do
StringOutputUnfinished(container, armor) ==
  IF armor
  THEN StringFromUtf8(ArmoredWriterUnfinished(container),
                      "Failed to convert armored output to string")
  ELSE Ok(Base64Encode(container))

\* lines 308-345: the text returned for a container
StringOutput(container, armor) ==
  IF armor
  THEN StringFromUtf8(ArmoredWriterFinished(container),
                      "Failed to convert armored output to string")
  ELSE Ok(Base64Encode(container))

age_encrypt_string_with_key(input_string, recipients, armor, fk) ==
  LET parsed_recipients == ParsedRecipients(recipients)
  IN  IF ~parsed_recipients.ok THEN parsed_recipients
      ELSE StringOutput(EncryptToRecipients(fk, parsed_recipients.val, input_string),
                        armor)

age_encrypt_string_with_passphrase(input_string, passphrase, fk) ==
  Ok(Base64Encode(EncryptToPassphrase(fk, passphrase, input_string)))

(***************************************************************************)
(* String decryption (lib.rs 388-449).                                     *)
(***************************************************************************)
\* the text taken as the container bytes, never decoded
EncryptedBytesVerbatim(encrypted_string) == Ok(encrypted_string)

\* lines 393-401 and 425-433: the container bytes of the text
EncryptedBytes(encrypted_string) ==
  IF StartsWith(encrypted_string, ArmorHeader) THEN Ok(encrypted_string)
  ELSE LET decoded == Base64Decode(encrypted_string)
       IN  IF decoded.ok THEN Ok(decoded.val) ELSE Err("Failed to decode base64")

\* a failed decryption turned into the empty string (unwrap_or_default)
DecryptedStringOrDefault(decrypted_bytes) ==
  StringFromUtf8(decrypted_bytes.val, "Failed to convert decrypted content to UTF-8")

\* lines 412-413 and 447-448
DecryptedString(decrypted_bytes) ==
  IF ~decrypted_bytes.ok THEN decrypted_bytes
  ELSE StringFromUtf8(decrypted_bytes.val, "Failed to convert decrypted content to UTF-8")

age_decrypt_string_with_passphrase(encrypted_string, passphrase) ==
  LET encrypted_bytes == EncryptedBytes(encrypted_string)
  IN  IF ~encrypted_bytes.ok THEN encrypted_bytes
      ELSE DecryptedString(decrypt_content(encrypted_bytes.val,
                                           <<ScryptIdentity(passphrase)>>))

age_decrypt_string_with_key(files, encrypted_string, private_key_path) ==
  LET encrypted_bytes == EncryptedBytes(encrypted_string)
      key_content == FsReadToString(files, private_key_path, "Failed to read private key file")
      identities == parse_identities_from_key_file(key_content.val)
  IN  IF ~encrypted_bytes.ok THEN encrypted_bytes
      ELSE IF ~key_content.ok THEN key_content
      ELSE IF ~identities.ok THEN identities
      ELSE DecryptedString(decrypt_content(encrypted_bytes.val, identities.val))

(***************************************************************************)
(* The error kinds of the specification, by the message the code gives.    *)
(***************************************************************************)
ErrorKind(res) ==
  IF res.ok THEN "None"
  ELSE IF res.err \in {"At least one recipient is required"} THEN "InvalidArguments"
  ELSE IF res.err \in {"Failed to read encrypted file", "Failed to read private key file",
                       "Failed to read key file", "Failed to read input file",
                       "Failed to create key file", "Failed to create output file"}
    THEN "IOFailure"
  ELSE IF res.err \in {"Failed to create decryptor", "Failed to decode base64",
                       "Failed to parse identity", "Invalid recipient"}
    THEN "FormatError"
  ELSE IF res.err = "No valid age identities found" THEN "NoIdentity"
  ELSE IF res.err \in {"Failed to decrypt", "Failed to read decrypted content"}
    THEN "DecryptionFailure"
  ELSE "EncodingFailure"

(***************************************************************************)
(* State.                                                                  *)
(*   fs    the file system                                                 *)
(*   inp   what the caller has for the session: the plaintext, the         *)
(*         recipient strings, and the keys of the identity lines of the    *)
(*         key file at KeyPath                                             *)
(*   held  the container the caller holds, with the file key and           *)
(*         credential it was made with ("none" before any encryption)      *)
(*   last  the last call: entry point, the buffer or text it was given,    *)
(*         how that was derived from the held container, and the result    *)
(***************************************************************************)
VARIABLES fs, inp, held, last

vars == <<fs, inp, held, last>>

\* "h", a two-byte character, "!hi": the text plaintexts are cut from
BaseText == <<104, 195, 169, 33, 104, 105>>

\* the prefixes of BaseText, whether or not they end inside a character
BytePlains == {Take(BaseText, n) : n \in 0..MaxPlainLen}

\* the plaintexts a caller can pass as a string
StringPlains == {p \in BytePlains : ValidUtf8(p)}

\* "p" and "q"
Passphrases == {<<112>>, <<113>>}

\* the keys recipient lists are made of; key NumKeys is in no list
ListedKeys == 1..(NumKeys - 1)

\* "age1" and "age1!", no recipients
BadRecipients == {RecipientHrp, RecipientHrp \o <<33>>}

\* the keys from..(from + n - 1) in rising order
Run(from, n) == [i \in 1..n |-> from + i - 1]

\* the runs of at most maxLen consecutive keys within lo..hi
KeyRuns(lo, hi, maxLen) ==
  {Run(from, n) : from \in lo..hi, n \in 1..maxLen} \cap SeqsUpTo(lo..hi, maxLen)

Reverse(s) == [i \in 1..Len(s) |-> s[Len(s) + 1 - i]]

\* the recipient strings of a list of keys
RecipientsOf(ks) == [i \in 1..Len(ks) |-> RecipientToString(ToPublic(ks[i]))]

GoodRecipients == {RecipientToString(ToPublic(k)) : k \in ListedKeys}

\* the lists of recipient strings a caller may pass
RecipientLists == SeqsUpTo(GoodRecipients \cup BadRecipients, MaxRecips)

\* the non-empty lists of recipient strings of a caller whose strings all
\* parse: runs of listed keys
GoodRecipientLists == {RecipientsOf(ks) : ks \in KeyRuns(1, NumKeys - 1, MaxRecips)}

\* "2025-01-01 00:00:00 UTC"
Now ==
  <<50, 48, 50, 53, 45, 48, 49, 45, 48, 49, 32, 48, 48, 58, 48, 48, 58, 48,
    48, 32, 85, 84, 67>>

\* a key file with one identity line per key of ids, after a comment line
KeyFileOf(ids) ==
  CreatedComment \o Now \o <<LF>>
    \o JoinLines([i \in 1..Len(ids) |-> IdentityToString(ids[i])])

\* the keys of the key files of a session: runs of keys, later keys first
IdentityLists == {Reverse(ks) : ks \in KeyRuns(1, NumKeys, MaxLines)}

NoHeld ==
  [mode |-> "none", text |-> <<>>, bin |-> <<>>, armor |-> FALSE, pass |-> <<>>, fk |-> 0,
   form |-> "none"]

\* a container as an encrypt call produced it: text is what the call
\* returned or wrote, bin the binary container the encryptor made
Held(mode, text, bin, armor, pass, fk) ==
  [mode |-> mode, text |-> text, bin |-> bin, armor |-> armor, pass |-> pass, fk |-> fk,
   form |-> "produced"]

NoCall ==
  [op |-> "none", input |-> <<>>, bytes |-> <<>>, variant |-> "none", cred |-> <<>>,
   src |-> "", dst |-> "", format |-> "none", res |-> Ok(<<>>)]

\* a call of a string entry point
StringCall(op, input, bytes, variant, cred, res) ==
  [op |-> op, input |-> input, bytes |-> bytes, variant |-> variant, cred |-> cred,
   src |-> "", dst |-> "", format |-> "none", res |-> res]

\* a call of a file entry point: the paths it was given, the bytes of the
\* file it read and the branch decrypt_content took on them
FileCall(op, src, dst, input, cred, format, res) ==
  [op |-> op, input |-> input, bytes |-> <<>>, variant |-> "none", cred |-> cred,
   src |-> src, dst |-> dst, format |-> format, res |-> res]

InitFs(keyText, inFile) ==
  [p \in Paths |-> IF p = KeyPath THEN File(keyText)
                   ELSE IF p = InPath THEN inFile
                   ELSE NoFile]

(***************************************************************************)
(* The inputs of a decrypt call: the text the caller holds as it was       *)
(* returned, the same container in its other serialization, or the         *)
(* container damaged in the payload.                                       *)
(***************************************************************************)
Bump(bin, i) == [bin EXCEPT ![i] = (bin[i] + 1) % 256]

DamagedVariants == {"flip_last", "cut_last_chunk"}

Variants == {"intact", "other_form"} \cup DamagedVariants

Damaged(bin, v) ==
  IF v = "flip_last" THEN Bump(bin, Len(bin))
  ELSE IF v = "cut_last_chunk"
    THEN LET n == Len(DecryptorNew(bin).payload)
             lastLen == IF n % (ChunkSize + 1) = 0 THEN ChunkSize + 1
                        ELSE n % (ChunkSize + 1)
         IN  Take(bin, Len(bin) - lastLen)
  ELSE bin

\* the text of a container: armored, or the base64 of the binary form
AsText(bin, armor) ==
  IF armor THEN ArmoredWriterFinished(bin) ELSE Base64Encode(bin)

HeldText(v) ==
  IF v = "intact" THEN held.text
  ELSE IF v = "other_form" THEN AsText(held.bin, ~held.armor)
  ELSE AsText(Damaged(held.bin, v), held.armor)

(***************************************************************************)
(* The string entry points as actions.                                     *)
(***************************************************************************)
EncryptStringWithKey ==
  \E armor \in BOOLEAN, fk \in FileKeys :
    LET res == age_encrypt_string_with_key(inp.plain, inp.recips, armor, fk)
    IN  /\ last' = StringCall("age_encrypt_string_with_key", inp.plain, <<>>, "none",
                              <<>>, res)
        /\ held' = IF res.ok
                   THEN Held("key", res.val,
                             EncryptToRecipients(fk, ParsedRecipients(inp.recips).val,
                                                 inp.plain),
                             armor, <<>>, fk)
                   ELSE held
        /\ UNCHANGED <<fs, inp>>

EncryptStringWithPassphrase ==
  \E pass \in Passphrases, fk \in FileKeys :
    LET res == age_encrypt_string_with_passphrase(inp.plain, pass, fk)
    IN  /\ last' = StringCall("age_encrypt_string_with_passphrase", inp.plain, <<>>,
                              "none", pass, res)
        /\ held' = Held("pass", res.val, EncryptToPassphrase(fk, pass, inp.plain),
                        FALSE, pass, fk)
        /\ UNCHANGED <<fs, inp>>

DecryptStringWithKey ==
  /\ held.mode # "none"
  /\ \E v \in Variants :
       LET text == HeldText(v)
       IN  last' = StringCall("age_decrypt_string_with_key", text,
                              EncryptedBytes(text).val, v, <<>>,
                              age_decrypt_string_with_key(fs, text, KeyPath))
  /\ UNCHANGED <<fs, inp, held>>

DecryptStringWithPassphrase ==
  /\ held.mode # "none"
  /\ \E pass \in Passphrases, v \in Variants :
       LET text == HeldText(v)
       IN  last' = StringCall("age_decrypt_string_with_passphrase", text,
                              EncryptedBytes(text).val, v, pass,
                              age_decrypt_string_with_passphrase(text, pass))
  /\ UNCHANGED <<fs, inp, held>>

InitString ==
  /\ \E plain \in StringPlains, recips \in GoodRecipientLists, ids \in IdentityLists :
       /\ inp = [plain |-> plain, recips |-> recips, ids |-> ids, lines |-> <<>>]
       /\ fs = InitFs(KeyFileOf(ids), NoFile)
  /\ held = NoHeld
  /\ last = NoCall

NextString ==
  \/ EncryptStringWithKey
  \/ EncryptStringWithPassphrase
  \/ DecryptStringWithKey
  \/ DecryptStringWithPassphrase

SpecString == InitString /\ [][NextString]_vars

(***************************************************************************)
(* Properties of the string entry points, under SpecString.                *)
(***************************************************************************)
Range(s) == {s[i] : i \in 1..Len(s)}

StringDecryptOps == {"age_decrypt_string_with_key", "age_decrypt_string_with_passphrase"}

\* the key file holds the identity of a member of the recipient list
KeyFileHoldsARecipient ==
  \E i \in 1..Len(inp.ids) : RecipientToString(ToPublic(inp.ids[i])) \in Range(inp.recips)

\* the credential of the last decrypt call opens a stanza of the held container
CredentialOpens ==
  \/ /\ last.op = "age_decrypt_string_with_key"
     /\ held.mode = "key"
     /\ KeyFileHoldsARecipient
  \/ /\ last.op = "age_decrypt_string_with_passphrase"
     /\ held.mode = "pass"
     /\ last.cred = held.pass

\* C1: key-mode round trip.  Decrypting what age_encrypt_string_with_key
\* returned for plaintext P and recipients R, armored or not, with a key
\* file that holds the identity of a member of R returns exactly P; so does
\* decrypting the other serialization (armored / binary) of that container.
C1_KeyRoundTrip ==
  (/\ last.op = "age_decrypt_string_with_key"
   /\ held.mode = "key"
   /\ last.variant \in {"intact", "other_form"}
   /\ KeyFileHoldsARecipient)
  => last.res = Ok(inp.plain)

\* an armored encryption of a plaintext of two chunks to two recipients,
\* decrypted with a key file whose second identity is the only listed one
C1_Witness ==
  /\ last.op = "age_decrypt_string_with_key"
  /\ last.variant = "intact"
  /\ held.mode = "key"
  /\ held.armor
  /\ Len(inp.recips) = 2
  /\ Len(inp.ids) = 2
  /\ RecipientToString(ToPublic(inp.ids[1])) \notin Range(inp.recips)
  /\ Len(inp.plain) > ChunkSize
  /\ last.res = Ok(inp.plain)

\* C2: passphrase round trip.  Decrypting with passphrase Y what
\* age_encrypt_string_with_passphrase returned for plaintext P and
\* passphrase X returns exactly P when Y = X and fails as a
\* DecryptionFailure, with no plaintext, when Y differs from X.
C2_PassphraseRoundTrip ==
  (/\ last.op = "age_decrypt_string_with_passphrase"
   /\ held.mode = "pass"
   /\ last.variant = "intact")
  => IF last.cred = held.pass THEN last.res = Ok(inp.plain)
     ELSE /\ ~last.res.ok
          /\ ErrorKind(last.res) = "DecryptionFailure"
          /\ last.res.val = <<>>

\* a wrong passphrase was refused
C2_Witness ==
  /\ last.op = "age_decrypt_string_with_passphrase"
  /\ held.mode = "pass"
  /\ last.variant = "intact"
  /\ last.cred # held.pass
  /\ inp.plain # <<>>
  /\ last.res.err = "Failed to decrypt"

\* C4: decrypt is all-or-nothing.  Every decrypt call returns the complete
\* plaintext or an error with no plaintext; a container whose payload was
\* altered or cut fails as a DecryptionFailure even when the credential
\* opens the file key.
C4_AllOrNothing ==
  last.op \in StringDecryptOps
  => /\ \/ last.res = Ok(inp.plain)
        \/ ~last.res.ok /\ last.res.val = <<>>
     /\ (last.variant \in DamagedVariants /\ CredentialOpens)
        => /\ ~last.res.ok
           /\ ErrorKind(last.res) = "DecryptionFailure"

\* the last chunk of a two-chunk payload was altered, the first chunk is
\* intact and the key opens the container: the call failed on reading
C4_Witness ==
  /\ last.op = "age_decrypt_string_with_key"
  /\ last.variant = "flip_last"
  /\ CredentialOpens
  /\ Len(inp.plain) > ChunkSize
  /\ last.res.err = "Failed to read decrypted content"

\* C9: string transport round trip.  The text a string encrypt returned is
\* mapped back to the container by the string decrypt's input handling:
\* armored output begins with the armor header and is used verbatim; binary
\* output does not begin with the armor header and is base64-decoded to the
\* binary container the encryptor produced.
C9_StringTransport ==
  (last.op \in StringDecryptOps /\ last.variant = "intact")
  => IF held.armor
     THEN /\ StartsWith(last.input, ArmorHeader)
          /\ last.bytes = last.input
          /\ ContainerInput(last.bytes) = [ok |-> TRUE, val |-> held.bin]
     ELSE /\ ~StartsWith(last.input, ArmorHeader)
          /\ last.bytes = held.bin
          /\ ContainerInput(last.bytes) = [ok |-> TRUE, val |-> held.bin]

\* a binary (base64) text was decoded and decrypted
C9_Witness ==
  /\ last.op = "age_decrypt_string_with_key"
  /\ last.variant = "intact"
  /\ ~held.armor
  /\ last.bytes = held.bin
  /\ last.input # held.bin
  /\ last.res.ok

(***************************************************************************)
(* Key files.  The key file of a session is made of lines of these kinds;  *)
(* inp.lines keeps the kinds, fs the text.                                 *)
(*   "comment"  "# c"                                                      *)
(*   "blank"    ""                                                         *)
(*   "id1" "id2"  the identity lines of keys 1 and 2                       *)
(*   "corrupt"  "AGE-SECRET-KEY-1!", which starts like a key and is none   *)
(*   "spaced"   the identity line of key 1 after a space                   *)
(***************************************************************************)
LineKinds == {"comment", "blank", "id1", "id2", "corrupt", "spaced"}

LineText(kind) ==
  IF kind = "comment" THEN <<35, 32, 99>>
  ELSE IF kind = "blank" THEN <<>>
  ELSE IF kind = "id1" THEN IdentityToString(1)
  ELSE IF kind = "id2" THEN IdentityToString(2)
  ELSE IF kind = "corrupt" THEN SecretKeyPrefix \o <<49, 33>>
  ELSE <<32>> \o IdentityToString(1)

\* the text of a key file, its lines ended by "\n" or by "\r\n"
KeyText(kinds, crlf) ==
  JoinLines([i \in 1..Len(kinds) |->
               LineText(kinds[i]) \o (IF crlf THEN <<CR>> ELSE <<>>)])

\* the kinds of the lines of a generated key file
GeneratedKinds(k) == <<"comment", "comment", IF k = 1 THEN "id1" ELSE "id2">>

\* parse_identities_from_key_file applied to the text of the key file
ParseIdentities ==
  /\ fs[KeyPath].exists
  /\ last' = FileCall("parse_identities_from_key_file", KeyPath, "", fs[KeyPath].data,
                      <<>>, "none", parse_identities_from_key_file(fs[KeyPath].data))
  /\ UNCHANGED <<fs, inp, held>>

ExtractPublicKey ==
  \E path \in {KeyPath, NoDirPath} :
    /\ last' = FileCall("age_extract_public_key", path, "", fs[path].data, <<>>, "none",
                        age_extract_public_key(fs, path))
    /\ UNCHANGED <<fs, inp, held>>

\* the generator draws one of the keys 1 and 2
GenerateKey ==
  \E path \in {KeyPath, NoDirPath}, k \in {1, 2} :
    LET r == age_generate_key(fs, path, k, Now)
    IN  /\ fs' = r.files
        /\ last' = FileCall("age_generate_key", "", path, <<>>, <<>>, "none", r.res)
        /\ inp' = IF r.res.ok THEN [inp EXCEPT !.lines = GeneratedKinds(k)] ELSE inp
        /\ UNCHANGED held

InitParse ==
  /\ \E kinds \in SeqsUpTo(LineKinds, MaxLines), crlf \in BOOLEAN :
       /\ inp = [plain |-> <<>>, recips |-> <<>>, ids |-> <<>>, lines |-> kinds]
       /\ fs = InitFs(KeyText(kinds, crlf), NoFile)
  /\ held = NoHeld
  /\ last = NoCall

NextParse ==
  \/ ParseIdentities
  \/ ExtractPublicKey
  \/ GenerateKey

SpecParse == InitParse /\ [][NextParse]_vars

(***************************************************************************)
(* Properties of key-file parsing, under SpecParse.                        *)
(***************************************************************************)
SignificantKinds == {"id1", "id2", "corrupt"}

IsSignificantKind(kind) == kind \in SignificantKinds

KeyOfKind(kind) == IF kind = "id1" THEN 1 ELSE 2

\* the significant lines of the key file, in file order
SignificantLines == SelectSeq(inp.lines, IsSignificantKind)

\* the identities of the significant lines, in file order
ExpectedIdentities ==
  [i \in 1..Len(SignificantLines) |-> X25519Identity(KeyOfKind(SignificantLines[i]))]

HasCorruptLine == \E i \in 1..Len(inp.lines) : inp.lines[i] = "corrupt"

HasValidLine == \E i \in 1..Len(inp.lines) : inp.lines[i] \in {"id1", "id2"}

\* C6: parse_identities returns exactly the identities of the lines that
\* start with "AGE-SECRET-KEY-", in file order, skipping every other line;
\* it fails as a FormatError when one such line does not parse, and as
\* NoIdentity when the text has no such line.
C6_ParseIdentities ==
  last.op = "parse_identities_from_key_file"
  => IF SignificantLines = <<>>
     THEN ~last.res.ok /\ ErrorKind(last.res) = "NoIdentity"
     ELSE IF HasCorruptLine
     THEN /\ ~last.res.ok
          /\ ErrorKind(last.res) = "FormatError"
          /\ last.res.err = "Failed to parse identity"
     ELSE last.res = Ok(ExpectedIdentities)

\* two identities came back in file order, key 2 before key 1
C6_Witness ==
  /\ last.op = "parse_identities_from_key_file"
  /\ inp.lines = <<"id2", "id1">>
  /\ last.res = Ok(<<X25519Identity(2), X25519Identity(1)>>)

\* the first valid identity line of the key file
FirstValidKind ==
  inp.lines[CHOOSE i \in 1..Len(inp.lines) :
              /\ inp.lines[i] \in {"id1", "id2"}
              /\ \A j \in 1..(i - 1) : inp.lines[j] \notin {"id1", "id2"}]

\* C8 as stated: for every key-file text with at least one valid identity
\* line, extract_recipient returns the public counterpart of the first
\* valid identity.
C8_ExtractFirstValid ==
  (last.op = "age_extract_public_key" /\ last.src = KeyPath /\ HasValidLine)
  => last.res = Ok(RecipientToString(ToPublic(KeyOfKind(FirstValidKind))))

\* C8 amended: for every key-file text whose significant lines all parse,
\* and that has one, extract_recipient returns the public counterpart of
\* the first identity; a text with a significant line that does not parse
\* fails as a FormatError, whatever valid identity lines it also has.
C8_ExtractValidated ==
  (last.op = "age_extract_public_key" /\ last.src = KeyPath)
  => IF HasCorruptLine
     THEN ~last.res.ok /\ ErrorKind(last.res) = "FormatError"
     ELSE IF HasValidLine
     THEN last.res = Ok(RecipientToString(ToPublic(KeyOfKind(FirstValidKind))))
     ELSE ~last.res.ok /\ ErrorKind(last.res) = "NoIdentity"

\* the public key of the first of two identities was returned
C8_Witness ==
  /\ last.op = "age_extract_public_key"
  /\ inp.lines = <<"id2", "id1">>
  /\ last.res = Ok(RecipientToString(ToPublic(2)))

(***************************************************************************)
(* The file entry points as actions.  A successful encryption leaves the   *)
(* caller holding the file it wrote.                                       *)
(***************************************************************************)
EncryptFileWithKey ==
  \E src \in {InPath, NoDirPath}, dst \in {OutPath, NoDirPath},
     armor \in BOOLEAN, fk \in FileKeys :
    LET r == age_encrypt_key(fs, src, dst, inp.recips, armor, fk)
    IN  /\ fs' = r.files
        /\ last' = FileCall("age_encrypt_key", src, dst, fs[src].data, <<>>, "none",
                            r.res)
        /\ held' = IF r.res.ok
                   THEN Held("key", r.files[dst].data,
                             EncryptToRecipients(fk, ParsedRecipients(inp.recips).val,
                                                 fs[src].data),
                             armor, <<>>, fk)
                   ELSE held
        /\ UNCHANGED inp

EncryptFileWithPassphrase ==
  \E src \in {InPath, NoDirPath}, dst \in {OutPath, NoDirPath},
     pass \in Passphrases, fk \in FileKeys :
    LET r == age_encrypt_passphrase(fs, src, dst, pass, fk)
    IN  /\ fs' = r.files
        /\ last' = FileCall("age_encrypt_passphrase", src, dst, fs[src].data, pass,
                            "none", r.res)
        /\ held' = IF r.res.ok
                   THEN Held("pass", r.files[dst].data,
                             EncryptToPassphrase(fk, pass, fs[src].data),
                             FALSE, pass, fk)
                   ELSE held
        /\ UNCHANGED inp

(***************************************************************************)
(* Encryption with any recipient strings.                                  *)
(***************************************************************************)
InitEncrypt ==
  /\ \E plain \in StringPlains, recips \in RecipientLists :
       /\ inp = [plain |-> plain, recips |-> recips, ids |-> <<>>, lines |-> <<>>]
       /\ fs = InitFs(<<>>, File(plain))
  /\ held = NoHeld
  /\ last = NoCall

NextEncrypt ==
  \/ EncryptStringWithKey
  \/ EncryptFileWithKey

SpecEncrypt == InitEncrypt /\ [][NextEncrypt]_vars

(***************************************************************************)
(* Properties of recipient parsing, under SpecEncrypt.                     *)
(***************************************************************************)
KeyEncryptOps == {"age_encrypt_key", "age_encrypt_string_with_key"}

HasBadRecipient == \E i \in 1..Len(inp.recips) : inp.recips[i] \in BadRecipients

\* the first string of the list that is no recipient
FirstBadRecipient ==
  inp.recips[CHOOSE i \in 1..Len(inp.recips) :
               /\ inp.recips[i] \in BadRecipients
               /\ \A j \in 1..(i - 1) : inp.recips[j] \notin BadRecipients]

\* C7: recipient parsing in encrypt is all-or-nothing.  An empty list fails
\* as InvalidArguments; a list with a string that does not parse fails as a
\* FormatError naming the first such string in input order, whatever valid
\* strings surround it, and nothing is encrypted: no text is returned, no
\* output file is written; a call succeeds only when every string parses.
C7_RecipientsAllOrNothing ==
  last.op \in KeyEncryptOps
  => /\ inp.recips = <<>>
          => ~last.res.ok /\ ErrorKind(last.res) = "InvalidArguments"
     /\ HasBadRecipient
          => /\ ~last.res.ok
             /\ ErrorKind(last.res) = "FormatError"
             /\ last.res.err = "Invalid recipient"
             /\ last.res.arg = FirstBadRecipient
             /\ last.res.val = <<>>
             /\ held = NoHeld
             /\ ~fs[OutPath].exists
     /\ last.res.ok => inp.recips # <<>> /\ ~HasBadRecipient
     /\ (inp.recips # <<>> /\ ~HasBadRecipient)
          => \/ last.res.ok
             \/ last.op = "age_encrypt_key" /\ ErrorKind(last.res) = "IOFailure"

\* a valid string, then the second of the two bad strings: the error names
\* that one, and the call was a file encryption
C7_Witness ==
  /\ last.op = "age_encrypt_key"
  /\ last.src = InPath
  /\ last.dst = OutPath
  /\ Len(inp.recips) = 2
  /\ inp.recips[1] \in GoodRecipients
  /\ inp.recips[2] = RecipientHrp \o <<33>>
  /\ last.res = ErrNaming("Invalid recipient", RecipientHrp \o <<33>>)

(***************************************************************************)
(* File decryption.  The file at OutPath is what the last encryption       *)
(* wrote there ("produced"), or the held container put there in one of     *)
(* these forms:                                                            *)
(*   "binary"      the binary container                                    *)
(*   "armored"     the container in a complete armor                       *)
(*   "spaced"      a space, then the complete armor                        *)
(*   "cut_header"  the begin marker without its last byte                  *)
(*   "empty"       no bytes                                                *)
(***************************************************************************)
Forms == {"binary", "armored", "spaced", "cut_header", "empty"}

FormBytes(bin, form) ==
  IF form = "binary" THEN bin
  ELSE IF form = "armored" THEN ArmoredWriterFinished(bin)
  ELSE IF form = "spaced" THEN <<32>> \o ArmoredWriterFinished(bin)
  ELSE IF form = "cut_header" THEN Take(ArmorHeader, Len(ArmorHeader) - 1)
  ELSE <<>>

\* the held container is put at OutPath in one of the forms
StoreContainer ==
  /\ held.mode # "none"
  /\ \E form \in Forms :
       /\ held.form # form
       /\ fs' = [fs EXCEPT ![OutPath] = File(FormBytes(held.bin, form))]
       /\ held' = [held EXCEPT !.form = form, !.text = FormBytes(held.bin, form)]
  /\ last' = NoCall
  /\ UNCHANGED inp

\* the errors decrypt_content ends with
DecryptContentErrors ==
  {"Failed to create decryptor", "Failed to decrypt", "Failed to read decrypted content"}

\* lines 19-36: the branch decrypt_content took on the buffer, "none" for a
\* call that ended before decrypt_content
BranchTaken(res, file_content) ==
  IF ~res.ok /\ res.err \notin DecryptContentErrors THEN "none"
  ELSE IF IsArmoredInput(file_content) THEN "Armored"
  ELSE "Binary"

DecryptFileWithKey ==
  /\ held.mode # "none"
  /\ \E src \in {OutPath, NoDirPath} :
       LET res == age_decrypt_with_key(fs, src, KeyPath)
       IN  last' = FileCall("age_decrypt_with_key", src, "", fs[src].data, <<>>,
                            BranchTaken(res, fs[src].data), res)
  /\ UNCHANGED <<fs, inp, held>>

DecryptFileWithPassphrase ==
  /\ held.mode # "none"
  /\ \E src \in {OutPath, NoDirPath}, pass \in Passphrases :
       LET res == age_decrypt_with_passphrase(fs, src, pass)
       IN  last' = FileCall("age_decrypt_with_passphrase", src, "", fs[src].data, pass,
                            BranchTaken(res, fs[src].data), res)
  /\ UNCHANGED <<fs, inp, held>>

\* the plaintexts of the input file, text or not
FilePlains == {p \in BytePlains : Len(p) >= MaxPlainLen - 1}

InitFile ==
  /\ \E plain \in FilePlains, recips \in GoodRecipientLists,
        ids \in KeyRuns(1, NumKeys, 1) :
       /\ inp = [plain |-> plain, recips |-> recips, ids |-> ids, lines |-> <<>>]
       /\ fs = InitFs(KeyFileOf(ids), File(plain))
  /\ held = NoHeld
  /\ last = NoCall

NextFile ==
  \/ EncryptFileWithKey
  \/ EncryptFileWithPassphrase
  \/ StoreContainer
  \/ DecryptFileWithKey
  \/ DecryptFileWithPassphrase

SpecFile == InitFile /\ [][NextFile]_vars

(***************************************************************************)
(* Properties of the file entry points, under SpecFile.                    *)
(***************************************************************************)
FileDecryptOps == {"age_decrypt_with_key", "age_decrypt_with_passphrase"}

\* the last call was a file decryption that read the file at OutPath
DecryptedOutFile == last.op \in FileDecryptOps /\ last.src = OutPath

\* the file at OutPath is a whole container, binary or armored
WholeContainerAtOut ==
  \/ held.form \in {"binary", "armored"}
  \/ held.form = "produced" /\ ~held.armor

\* the credential of the last file decryption opens a stanza of the held
\* container
FileCredentialOpens ==
  \/ /\ last.op = "age_decrypt_with_key"
     /\ held.mode = "key"
     /\ KeyFileHoldsARecipient
  \/ /\ last.op = "age_decrypt_with_passphrase"
     /\ held.mode = "pass"
     /\ last.cred = held.pass

\* C3: decrypt fails as a DecryptionFailure, and returns no plaintext,
\* whenever no stanza of the container can be unwrapped by the credential
\* supplied: a key file whose identities match no recipient, a wrong
\* passphrase, key identities against a passphrase container, a passphrase
\* against a recipient container.
C3_NoStanzaUnwrapped ==
  (DecryptedOutFile /\ WholeContainerAtOut /\ ~FileCredentialOpens)
  => /\ ~last.res.ok
     /\ ErrorKind(last.res) = "DecryptionFailure"
     /\ last.res.err = "Failed to decrypt"
     /\ last.res.val = <<>>

\* key identities were tried on an armored passphrase container
C3_Witness ==
  /\ DecryptedOutFile
  /\ last.op = "age_decrypt_with_key"
  /\ held.mode = "pass"
  /\ held.form = "armored"
  /\ last.res = Err("Failed to decrypt")

\* the buffer begins with the whole begin marker
BeginsWithArmorHeader(buf) ==
  /\ Len(buf) >= Len(ArmorHeader)
  /\ SubSeq(buf, 1, Len(ArmorHeader)) = ArmorHeader

\* C5: the format of a buffer depends on its prefix only.  A buffer is
\* handled as Armored exactly when it begins with the whole begin marker;
\* an empty buffer, a cut marker and a marker after a space are handled as
\* Binary, where they fail as no container; every buffer is handled as one
\* of the two.
C5_FormatByPrefix ==
  (DecryptedOutFile /\ last.format # "none")
  => /\ last.format \in {"Armored", "Binary"}
     /\ last.format = "Armored" <=> BeginsWithArmorHeader(last.input)
     /\ held.form = "armored" => last.format = "Armored"
     /\ held.form = "binary" => last.format = "Binary"
     /\ held.form \in {"spaced", "cut_header", "empty"}
          => /\ last.format = "Binary"
             /\ last.res = Err("Failed to create decryptor")
     /\ (held.form \in {"armored", "binary"} /\ FileCredentialOpens)
          => last.res = Ok(inp.plain)

\* a complete armor after a space was handled as Binary
C5_Witness ==
  /\ DecryptedOutFile
  /\ held.form = "spaced"
  /\ last.input[1] = 32
  /\ BeginsWithArmorHeader(Tail(last.input))
  /\ last.format = "Binary"

\* the text that carries a buffer to the string entry points: an armored
\* text as it is, other bytes in base64
TransportText(buf) == IF BeginsWithArmorHeader(buf) THEN buf ELSE Base64Encode(buf)

\* the string entry point applied to what the last file decryption read
StringFormOfLast ==
  IF last.op = "age_decrypt_with_key"
  THEN age_decrypt_string_with_key(fs, TransportText(last.input), KeyPath)
  ELSE age_decrypt_string_with_passphrase(TransportText(last.input), last.cred)

SameOutcome(a, b) ==
  \/ a.ok /\ b.ok /\ a.val = b.val
  \/ ~a.ok /\ ~b.ok /\ ErrorKind(a) = ErrorKind(b)

\* what the string entry point returns for the input of the last file
\* encryption, with the same credential, armor choice and file key
StringFormOfEncrypt ==
  IF last.op = "age_encrypt_key"
  THEN age_encrypt_string_with_key(last.input, inp.recips, held.armor, held.fk)
  ELSE age_encrypt_string_with_passphrase(last.input, last.cred, held.fk)

\* C10: the file and the string forms are equivalent apart from the
\* transport.  A file encryption of a text writes the container that the
\* string encryption returns as text, and decrypting the same container
\* bytes through the file form and through the string form with the same
\* credential gives the same plaintext or the same kind of failure.
C10_FormsEquivalent ==
  /\ (/\ last.op \in {"age_encrypt_key", "age_encrypt_passphrase"}
      /\ last.res.ok
      /\ ValidUtf8(last.input))
     => /\ StringFormOfEncrypt.ok
        /\ EncryptedBytes(StringFormOfEncrypt.val) = Ok(fs[last.dst].data)
  /\ DecryptedOutFile => SameOutcome(last.res, StringFormOfLast)

(***************************************************************************)
(* File encryption over an output path that may hold an earlier file.      *)
(***************************************************************************)
\* "old"
OldOutput == <<111, 108, 100>>

InitOverwrite ==
  /\ \E plain \in StringPlains, recips \in RecipientLists,
        out \in {NoFile, File(OldOutput)} :
       /\ inp = [plain |-> plain, recips |-> recips, ids |-> <<>>, lines |-> <<>>]
       /\ fs = [InitFs(<<>>, File(plain)) EXCEPT ![OutPath] = out]
  /\ held = NoHeld
  /\ last = NoCall

NextOverwrite ==
  \/ EncryptFileWithKey
  \/ EncryptFileWithPassphrase

SpecOverwrite == InitOverwrite /\ [][NextOverwrite]_vars

(***************************************************************************)
(* Properties of the order of steps in file encryption, under              *)
(* SpecOverwrite.                                                          *)
(***************************************************************************)
FileEncryptOps == {"age_encrypt_key", "age_encrypt_passphrase"}

\* the failures of the steps before the output file is created
EarlyFailures ==
  {"Invalid recipient", "At least one recipient is required", "Failed to read input file"}

\* C11: file encryption creates or truncates the output file only after the
\* recipients have been parsed and found non-empty and the whole input file
\* has been read.  A call that fails at recipient parsing, at the empty
\* recipient check or at reading the input file leaves the output path, and
\* every other file, exactly as it was before the call; a call that changes
\* the output path had recipients (in key mode) that all parse and an
\* input file that exists.
C11_OutputCreatedLast ==
  [][last'.op \in FileEncryptOps
     => /\ (~last'.res.ok /\ last'.res.err \in EarlyFailures) => fs' = fs
        /\ fs'[last'.dst] # fs[last'.dst]
             => /\ last'.res.ok
                /\ fs[last'.src].exists
                /\ last'.op = "age_encrypt_key"
                     => inp.recips # <<>> /\ ~HasBadRecipient]_vars

\* an encryption to the path of an earlier file failed at recipient parsing
\* and the earlier file is still there
C11_Witness ==
  /\ last.op = "age_encrypt_key"
  /\ last.src = InPath
  /\ last.dst = OutPath
  /\ ~last.res.ok
  /\ last.res.err = "Invalid recipient"
  /\ fs[OutPath] = File(OldOutput)

====
